---- MODULE Spec2Model ----
(***************************************************************************)
(* Model of webpack.config.js of ExportSassVarsToJS.                       *)
(*                                                                         *)
(* The file is a CommonJS module.  Loading it reads process.env.NODE_ENV   *)
(* once into the module constant isProduction, builds ONE module-level     *)
(* object `config` and exports a factory.  The factory assigns             *)
(* config.mode (and, outside production, config.devtool) on that object    *)
(* and returns it.                                                         *)
(*                                                                         *)
(* Objects live in `heap` (a sequence, the index is the object's           *)
(* identity), so that "the same object" and "an equal object" differ.      *)
(* File names are sequences of one-character strings and the rules'        *)
(* regular expressions are matched character by character.                 *)
(***************************************************************************)
EXTENDS Integers, Sequences, FiniteSets, TLC

VARIABLES
    env,          \* process.env.NODE_ENV now
    envAtLoad,    \* history: process.env.NODE_ENV when line 5 ran
    isProduction, \* the module constant of line 5
    heap,         \* the objects allocated by the module, by address
    results,      \* history: one entry per return of the factory
    callerWrites, \* history: the last value a caller assigned to each property
    path,         \* the resource the bundler matches against the rules
    resolved,     \* the rules have been matched against path
    matched       \* the indexes of the rules whose condition matched path

vars == <<env, envAtLoad, isProduction, heap, results, callerWrites,
          path, resolved, matched>>

-----------------------------------------------------------------------------
(* Bounds *)

MaxCalls == 3      \* invocations of the factory in one process
MaxStemLen == 2    \* characters of a file name before its ending

-----------------------------------------------------------------------------
(* process.env.NODE_ENV *)

Undefined == [defined |-> FALSE]
Str(s) == [defined |-> TRUE, value |-> s]

NodeEnvValues == {Undefined, Str(""), Str("production"), Str("PRODUCTION"),
                  Str("development")}

IsProductionEnvAnyCase(v) ==
    v.defined /\ v.value \in {"production", "PRODUCTION"}

\* line 5: process.env.NODE_ENV == 'production' (loose equality of a
\* string or undefined with a string literal)
IsProductionEnv(v) == v.defined /\ v.value = "production"

-----------------------------------------------------------------------------
(* Regular expressions of the rules *)

Ch(c) == [chars |-> {c}, opt |-> FALSE]
OptCh(c) == [chars |-> {c}, opt |-> TRUE]
OneOf(S) == [chars |-> S, opt |-> FALSE]
Lit(s) == [k \in 1..Len(s) |-> Ch(s[k])]

\* /\.s[ac]ss$/i
SassTest ==
    [alts |-> {<<Ch("."), Ch("s"), OneOf({"a", "c"}), Ch("s"), Ch("s")>>},
     ignoreCase |-> TRUE, anchorEnd |-> TRUE]

CssTestLoose ==
    [alts |-> {<<OptCh("."), Ch("c"), Ch("s"), Ch("s")>>},
     ignoreCase |-> TRUE, anchorEnd |-> TRUE]

\* /\.css$/i
CssTest ==
    [alts |-> {Lit(<<".", "c", "s", "s">>)},
     ignoreCase |-> TRUE, anchorEnd |-> TRUE]

ScriptTestStrict ==
    [alts |-> {<<Ch("."), Ch("j"), Ch("s")>>},
     ignoreCase |-> FALSE, anchorEnd |-> TRUE]

\* /\.?js$/
ScriptTest ==
    [alts |-> {<<OptCh("."), Ch("j"), Ch("s")>>},
     ignoreCase |-> FALSE, anchorEnd |-> TRUE]

\* /node_modules/
NodeModulesRe ==
    [alts |-> {Lit(<<"n", "o", "d", "e", "_", "m", "o", "d", "u", "l", "e", "s">>)},
     ignoreCase |-> FALSE, anchorEnd |-> FALSE]

\* /\.(ts|tsx)$/i
TsTest ==
    [alts |-> {Lit(<<".", "t", "s">>), Lit(<<".", "t", "s", "x">>)},
     ignoreCase |-> TRUE, anchorEnd |-> TRUE]

\* /\.(eot|svg|ttf|woff|woff2|png|jpg|gif)$/i
AssetTest ==
    [alts |-> {Lit(<<".", "e", "o", "t">>), Lit(<<".", "s", "v", "g">>),
               Lit(<<".", "t", "t", "f">>), Lit(<<".", "w", "o", "f", "f">>),
               Lit(<<".", "w", "o", "f", "f", "2">>),
               Lit(<<".", "p", "n", "g">>), Lit(<<".", "j", "p", "g">>),
               Lit(<<".", "g", "i", "f">>)},
     ignoreCase |-> TRUE, anchorEnd |-> TRUE]

\* the 'i' flag: canonical case folding of the letters the model uses
UpperToLower ==
    [c \in {"S", "C", "A", "J", "T", "X", "P", "N", "G"} |->
        CASE c = "S" -> "s" [] c = "C" -> "c" [] c = "A" -> "a"
          [] c = "J" -> "j" [] c = "T" -> "t" [] c = "X" -> "x"
          [] c = "P" -> "p" [] c = "N" -> "n" [] c = "G" -> "g"]

Fold(c, ignoreCase) ==
    IF ignoreCase /\ c \in DOMAIN UpperToLower THEN UpperToLower[c] ELSE c

\* the items k.. of one alternative match s from position i on
RECURSIVE MatchFrom(_, _, _, _, _, _)
MatchFrom(items, k, s, i, ignoreCase, anchorEnd) ==
    IF k > Len(items)
    THEN anchorEnd => i = Len(s) + 1
    ELSE \/ /\ i <= Len(s)
            /\ Fold(s[i], ignoreCase) \in items[k].chars
            /\ MatchFrom(items, k + 1, s, i + 1, ignoreCase, anchorEnd)
         \/ /\ items[k].opt
            /\ MatchFrom(items, k + 1, s, i, ignoreCase, anchorEnd)

\* RegExp.prototype.test: a match starting anywhere
RegExpTest(re, s) ==
    \E alt \in re.alts : \E i \in 1..(Len(s) + 1) :
        MatchFrom(alt, 1, s, i, re.ignoreCase, re.anchorEnd)

\* a string condition of a rule matches the resources that start with it
StartsWith(s, prefix) ==
    /\ Len(prefix) <= Len(s)
    /\ \A k \in 1..Len(prefix) : s[k] = prefix[k]

\* one condition of a rule: a RegExp or a string
ConditionMatches(c, s) ==
    IF "regexp" \in DOMAIN c
    THEN RegExpTest(c.regexp, s)
    ELSE StartsWith(s, c.prefix)

\* a rule applies to a resource that its test matches and that none of its
\* exclude conditions matches
RuleMatches(rule, s) ==
    /\ ConditionMatches(rule.test, s)
    /\ "exclude" \in DOMAIN rule =>
           \A k \in 1..Len(rule.exclude) : ~ConditionMatches(rule.exclude[k], s)

-----------------------------------------------------------------------------
(* The configuration object *)

\* line 3: MiniCssExtractPlugin.loader
stylesHandler == "MiniCssExtractPlugin.loader"

\* line 29: isProduction ? stylesHandler : 'style-loader'
SassFirstStep(isProd) == IF isProd THEN stylesHandler ELSE "style-loader"

CssLoaderStepLocal ==
    [loader |-> "css-loader",
     options |-> [sourceMap |-> TRUE,
                  importLoaders |-> 1,
                  modules |-> [mode |-> "local"]]]

\* lines 30-39
CssLoaderStep ==
    [loader |-> "css-loader",
     options |-> [sourceMap |-> TRUE,
                  importLoaders |-> 1,
                  modules |-> [mode |-> "icss"]]]

\* lines 26-43
SassRule(isProd) ==
    [test |-> [regexp |-> SassTest],
     use |-> <<[loader |-> SassFirstStep(isProd)],
               CssLoaderStep,
               [loader |-> "postcss-loader"],
               [loader |-> "sass-loader"]>>]

\* lines 44-47
CssRule ==
    [test |-> [regexp |-> CssTest],
     use |-> <<[loader |-> stylesHandler],
               [loader |-> "css-loader"],
               [loader |-> "postcss-loader"]>>]

\* lines 48-57
ScriptRule ==
    [test |-> [regexp |-> ScriptTest],
     exclude |-> <<[regexp |-> NodeModulesRe]>>,
     use |-> <<[loader |-> "babel-loader",
                options |-> [presets |-> <<"@babel/preset-env",
                                           "@babel/preset-react">>]]>>]

\* lines 58-62: the exclude is an array holding the string '/node_modules/'
TsRule ==
    [test |-> [regexp |-> TsTest],
     loader |-> "ts-loader",
     exclude |-> <<[prefix |-> <<"/", "n", "o", "d", "e", "_", "m", "o", "d",
                                 "u", "l", "e", "s", "/">>]>>]

\* lines 63-66
AssetRule ==
    [test |-> [regexp |-> AssetTest],
     type |-> "asset"]

\* lines 14-23
Plugins ==
    <<[plugin |-> "MiniCssExtractPlugin"],
      [plugin |-> "HtmlWebpackPlugin", options |-> [template |-> "index.html"]]>>

\* lines 72-77; each extension is kept as its characters
Resolve ==
    [alias |-> {<<"@", "<__dirname>/src/">>},
     extensions |-> << <<".", "t", "s", "x">>, <<".", "t", "s">>,
                       <<".", "j", "s", "x">>, <<".", "j", "s">>,
                       <<".", ".", ".">> >>]

ConfigLiteralCssByMode(isProd) ==
    [entry |-> "./src/index.js",
     output |-> [path |-> "<__dirname>/dist", clean |-> TRUE],
     plugins |-> Plugins,
     module |-> [rules |-> <<SassRule(isProd),
                             [CssRule EXCEPT !.use[1].loader =
                                                 SassFirstStep(isProd)],
                             ScriptRule, TsRule, AssetRule>>],
     resolve |-> Resolve]

\* lines 8-78: the object literal, evaluated once when the module loads
ConfigLiteral(isProd) ==
    [entry |-> "./src/index.js",
     output |-> [path |-> "<__dirname>/dist", clean |-> TRUE],
     plugins |-> Plugins,
     module |-> [rules |-> <<SassRule(isProd), CssRule, ScriptRule,
                             TsRule, AssetRule>>],
     resolve |-> Resolve]

\* obj.name = value on a JavaScript object: the property is created when
\* it is absent
SetProperty(obj, name, value) ==
    [f \in DOMAIN obj \cup {name} |-> IF f = name THEN value ELSE obj[f]]

HasProperty(obj, name) == name \in DOMAIN obj

FactoryBodyPushing(cfg, isProd) ==
    IF isProd
    THEN SetProperty(cfg, "mode", "production")
    ELSE SetProperty(SetProperty(SetProperty(cfg, "mode", "development"),
                                 "devtool", "source-map"),
                     "plugins",
                     Append(cfg.plugins,
                            [plugin |-> "HotModuleReplacementPlugin"]))

FactoryBodyDevtoolAlways(cfg, isProd) ==
    SetProperty(SetProperty(cfg, "mode",
                            IF isProd THEN "production" ELSE "development"),
                "devtool", "source-map")

\* lines 81-87: the assignments the factory makes on config
FactoryBody(cfg, isProd) ==
    IF isProd
    THEN SetProperty(cfg, "mode", "production")
    ELSE SetProperty(SetProperty(cfg, "mode", "development"),
                     "devtool", "source-map")

-----------------------------------------------------------------------------
(* The module in one process *)

\* the address of the object bound to `config` (line 8)
ConfigRef == 1

NoWrites == [n \in {} |-> ""]

\* the state after require() of the file: line 5 has read NODE_ENV and
\* lines 8-78 have built the one config object
Init ==
    /\ env \in NodeEnvValues
    /\ envAtLoad = env
    /\ isProduction = IsProductionEnv(env)
    /\ heap = <<ConfigLiteral(isProduction)>>
    /\ results = <<>>
    /\ callerWrites = NoWrites
    /\ path = <<>>
    /\ resolved = FALSE
    /\ matched = {}

\* the environment variable is changed inside the process
SetEnv(v) ==
    /\ v # env
    /\ env' = v
    /\ UNCHANGED <<envAtLoad, isProduction, heap, results, callerWrites,
                   path, resolved, matched>>

BranchAtCall == IsProductionEnv(env)

\* which branch line 81 takes: the module constant
Branch == isProduction

InvokeFresh ==
    /\ Len(results) < MaxCalls
    /\ LET made == FactoryBody(ConfigLiteral(isProduction), Branch)
       IN /\ heap' = Append(heap, made)
          /\ results' = Append(results,
                 [env |-> env, ref |-> Len(heap) + 1, snap |-> made,
                  writes |-> callerWrites])
    /\ UNCHANGED <<env, envAtLoad, isProduction, callerWrites,
                   path, resolved, matched>>

\* lines 80-88: one call of the exported factory
Invoke ==
    /\ Len(results) < MaxCalls
    /\ LET made == FactoryBody(heap[ConfigRef], Branch)
       IN /\ heap' = [heap EXCEPT ![ConfigRef] = made]
          /\ results' = Append(results,
                 [env |-> env, ref |-> ConfigRef, snap |-> made,
                  writes |-> callerWrites])
    /\ UNCHANGED <<env, envAtLoad, isProduction, callerWrites,
                   path, resolved, matched>>

Next ==
    \/ \E v \in NodeEnvValues : SetEnv(v)
    \/ Invoke

Spec == Init /\ [][Next]_vars

-----------------------------------------------------------------------------
(* A caller that keeps the returned object and assigns to it *)

CallerValues == [entry |-> "./src/other.js", devtool |-> "eval"]

\* the caller assigns a property of the object the last call returned
CallerWrite(name) ==
    /\ Len(results) >= 1
    /\ LET ref == results[Len(results)].ref
           obj == heap[ref]
       IN /\ IF HasProperty(obj, name)
             THEN obj[name] # CallerValues[name]
             ELSE TRUE
          /\ heap' = [heap EXCEPT ![ref] =
                         SetProperty(obj, name, CallerValues[name])]
    /\ callerWrites' = SetProperty(callerWrites, name, CallerValues[name])
    /\ UNCHANGED <<env, envAtLoad, isProduction, results,
                   path, resolved, matched>>

NextShared ==
    \/ Invoke
    \/ \E name \in DOMAIN CallerValues : CallerWrite(name)

SpecShared == Init /\ [][NextShared]_vars

-----------------------------------------------------------------------------
(* The bundler matching one resource against the rules *)

NodeModulesDir ==
    <<"n", "o", "d", "e", "_", "m", "o", "d", "u", "l", "e", "s", "/">>

Dirs == {<<>>, <<"s", "r", "c", "/">>, NodeModulesDir, <<"/">> \o NodeModulesDir}

StemChars == {"a", ".", "s", "x"}

Stems == UNION {[1..n -> StemChars] : n \in 0..MaxStemLen}

Endings ==
    {<<>>,
     <<".", "s", "c", "s", "s">>, <<".", "s", "a", "s", "s">>,
     <<".", "S", "C", "S", "S">>, <<".", "c", "s", "s">>,
     <<".", "C", "s", "s">>, <<"c", "s", "s">>,
     <<".", "j", "s">>, <<"j", "s">>, <<".", "J", "S">>,
     <<".", "j", "s", "x">>, <<".", "m", "j", "s">>,
     <<".", "j", "s", "o", "n">>,
     <<".", "t", "s">>, <<"t", "s">>, <<".", "t", "s", "x">>,
     <<".", "T", "S">>, <<".", "d", ".", "t", "s">>,
     <<".", "e", "o", "t">>, <<".", "s", "v", "g">>, <<".", "t", "t", "f">>,
     <<".", "w", "o", "f", "f">>, <<".", "w", "o", "f", "f", "2">>,
     <<".", "p", "n", "g">>, <<".", "P", "N", "G">>, <<".", "j", "p", "g">>,
     <<".", "g", "i", "f">>, <<".", "h", "t", "m", "l">>}

Paths == {d \o s \o e : d \in Dirs, s \in Stems, e \in Endings}

InitRules ==
    /\ env \in {Undefined, Str("production")}
    /\ envAtLoad = env
    /\ isProduction = IsProductionEnv(env)
    /\ heap = <<FactoryBody(ConfigLiteral(isProduction), isProduction)>>
    /\ results = <<>>
    /\ callerWrites = NoWrites
    /\ path \in Paths
    /\ resolved = FALSE
    /\ matched = {}

\* every rule of config.module.rules is tried against the resource
MatchRules ==
    /\ ~resolved
    /\ resolved' = TRUE
    /\ LET rules == heap[ConfigRef].module.rules
       IN matched' = {i \in 1..Len(rules) : RuleMatches(rules[i], path)}
    /\ UNCHANGED <<env, envAtLoad, isProduction, heap, results, callerWrites,
                   path>>

NextRules == MatchRules

SpecRules == InitRules /\ [][NextRules]_vars

-----------------------------------------------------------------------------
(* Claims about the factory, checked under Spec *)

Returned == {results[k] : k \in 1..Len(results)}

SassUse(cfg) == cfg.module.rules[1].use

\* C1: when the NODE_ENV the configuration file read is the literal
\* "production", every configuration the factory returns has mode
\* "production", no devtool property, and the extraction loader as the first
\* step of the Sass/SCSS rule.
C1_ProductionConfig ==
    \A r \in Returned :
        envAtLoad = Str("production") =>
            /\ r.snap.mode = "production"
            /\ ~HasProperty(r.snap, "devtool")
            /\ SassUse(r.snap)[1].loader = stylesHandler

C1_Witness ==
    /\ envAtLoad = Str("production")
    /\ Len(results) = MaxCalls
    /\ ~HasProperty(results[MaxCalls].snap, "devtool")

\* C2: for every other value of NODE_ENV (unset, empty, any other string)
\* the factory returns a configuration with mode "development", devtool
\* "source-map" and 'style-loader' as the first step of the Sass/SCSS rule.
C2_DevelopmentConfig ==
    \A r \in Returned :
        envAtLoad # Str("production") =>
            /\ r.snap.mode = "development"
            /\ HasProperty(r.snap, "devtool")
            /\ r.snap.devtool = "source-map"
            /\ SassUse(r.snap)[1].loader = "style-loader"

C2_Witness ==
    /\ envAtLoad = Str("PRODUCTION")
    /\ Len(results) >= 1
    /\ results[1].snap.mode = "development"

\* C3 as stated: the mode, the devtool setting and the first step of the
\* Sass/SCSS rule of every returned configuration reflect the value NODE_ENV
\* has when the factory is called.
C3_BranchAtInvocation ==
    \A r \in Returned :
        /\ r.snap.mode = "production" <=> IsProductionEnv(r.env)
        /\ HasProperty(r.snap, "devtool") <=> ~IsProductionEnv(r.env)
        /\ SassUse(r.snap)[1].loader = stylesHandler <=> IsProductionEnv(r.env)

\* C3 amended: the three mode-dependent places of every returned
\* configuration reflect the value NODE_ENV had when the file was loaded,
\* whatever value it has when the factory is called.
C3_BranchAtLoad ==
    \A r \in Returned :
        /\ r.snap.mode = "production" <=> IsProductionEnv(envAtLoad)
        /\ HasProperty(r.snap, "devtool") <=> ~IsProductionEnv(envAtLoad)
        /\ SassUse(r.snap)[1].loader = stylesHandler
               <=> IsProductionEnv(envAtLoad)

C3_Witness ==
    \E r \in Returned :
        /\ IsProductionEnv(r.env)
        /\ ~IsProductionEnv(envAtLoad)
        /\ r.snap.mode = "development"

\* C5: any two invocations made with the same NODE_ENV value return
\* structurally identical configurations.
C5_Idempotent ==
    \A i, j \in 1..Len(results) :
        results[i].env = results[j].env => results[i].snap = results[j].snap

C5_Witness ==
    /\ Len(results) = MaxCalls
    /\ results[1].env = results[MaxCalls].env
    /\ results[1].env # results[2].env
    /\ results[1].env = Undefined

\* the properties in which two objects differ
DiffProperties(a, b) ==
    {f \in DOMAIN a \cup DOMAIN b :
        IF f \in DOMAIN a /\ f \in DOMAIN b THEN a[f] # b[f] ELSE TRUE}

\* the configuration the other value of isProduction yields
OtherBranchConfig == FactoryBody(ConfigLiteral(~isProduction), ~isProduction)

\* C6: the production and the development configuration have the same
\* number of rules with the same patterns in the same order and differ in
\* exactly three places: mode, devtool and the first step of the Sass/SCSS
\* rule.
C6_BranchesDifferInThreePlaces ==
    \A r \in Returned :
        LET a == r.snap
            b == OtherBranchConfig
            ra == a.module.rules
            rb == b.module.rules
        IN /\ DiffProperties(a, b) = {"mode", "devtool", "module"}
           /\ a.mode # b.mode
           /\ HasProperty(a, "devtool") # HasProperty(b, "devtool")
           /\ DOMAIN a.module = DOMAIN b.module
           /\ Len(ra) = Len(rb)
           /\ \A i \in 1..Len(ra) : ra[i].test = rb[i].test
           /\ \A i \in 2..Len(ra) : ra[i] = rb[i]
           /\ DiffProperties(ra[1], rb[1]) = {"use"}
           /\ Len(ra[1].use) = Len(rb[1].use)
           /\ ra[1].use[1] # rb[1].use[1]
           /\ \A k \in 2..Len(ra[1].use) : ra[1].use[k] = rb[1].use[k]

C6_Witness ==
    /\ Len(results) >= 1
    /\ isProduction
    /\ OtherBranchConfig.mode = "development"
    /\ results[1].snap.module.rules[2].use[1].loader = stylesHandler

\* C8: in both modes the chain of the Sass/SCSS rule holds the css-loader
\* step with modules.mode "icss" and importLoaders 1 right after the
\* mode-dependent first step and before the steps that end in 'sass-loader'.
C8_IcssStep ==
    \A r \in Returned :
        LET use == SassUse(r.snap)
        IN /\ Len(use) > 2
           /\ use[1].loader = SassFirstStep(isProduction)
           /\ {k \in 1..Len(use) : use[k].loader = "css-loader"} = {2}
           /\ HasProperty(use[2], "options")
           /\ use[2].options.modules.mode = "icss"
           /\ use[2].options.importLoaders = 1
           /\ use[Len(use)].loader = "sass-loader"

C8_Witness ==
    /\ Len(results) >= 1
    /\ isProduction
    /\ SassUse(results[1].snap)[2].options.modules.mode = "icss"

-----------------------------------------------------------------------------
(* Claim about the returned object, checked under SpecShared *)

\* C4 as stated: each invocation returns a distinct, fresh object, and
\* nothing a caller assigned to an earlier result shows in a later result.
C4_FreshObject ==
    /\ \A i, j \in 1..Len(results) :
           i # j => results[i].ref # results[j].ref
    /\ \A r \in Returned : r.snap.entry = ConfigLiteral(isProduction).entry

\* C4 amended: every invocation returns the one module-level object (no
\* other object is ever allocated), so what a caller assigned to it shows in
\* every later result, except a property the factory assigns again: mode,
\* and outside production devtool.
C4_SharedObject ==
    /\ Len(heap) = 1
    /\ \A r \in Returned :
           /\ r.ref = ConfigRef
           /\ HasProperty(r.writes, "entry") => r.snap.entry = r.writes.entry
           /\ HasProperty(r.writes, "devtool") =>
                  r.snap.devtool =
                      IF isProduction THEN r.writes.devtool ELSE "source-map"

C4_Witness ==
    /\ Len(results) >= 2
    /\ isProduction
    /\ ~HasProperty(results[1].snap, "devtool")
    /\ HasProperty(results[2].snap, "devtool")
    /\ results[2].snap.devtool = "eval"
    /\ results[2].snap.entry = "./src/other.js"

-----------------------------------------------------------------------------
(* Claims about the rules' patterns, checked under SpecRules *)

EndsWith(s, suffix) ==
    /\ Len(suffix) <= Len(s)
    /\ SubSeq(s, Len(s) - Len(suffix) + 1, Len(s)) = suffix

Contains(s, part) ==
    \E i \in 1..(Len(s) - Len(part) + 1) :
        SubSeq(s, i, i + Len(part) - 1) = part

NodeModulesName == SubSeq(NodeModulesDir, 1, Len(NodeModulesDir) - 1)

RulesOf(cfg) == cfg.module.rules

\* C7: no resource is matched by more than one rule, and the rules stand in
\* the order Sass/SCSS, CSS, script, TypeScript, image/font.
C7_RulesDisjointAndOrdered ==
    LET rules == RulesOf(heap[ConfigRef])
    IN /\ resolved => Cardinality(matched) <= 1
       /\ Len(rules) = 5
       /\ RuleMatches(rules[1], <<"a", ".", "s", "c", "s", "s">>)
       /\ RuleMatches(rules[2], <<"a", ".", "c", "s", "s">>)
       /\ RuleMatches(rules[3], <<"a", ".", "j", "s">>)
       /\ RuleMatches(rules[4], <<"a", ".", "t", "s">>)
       /\ RuleMatches(rules[5], <<"a", ".", "p", "n", "g">>)

C7_Witness ==
    /\ resolved
    /\ EndsWith(path, <<"s", ".", "s", "c", "s", "s">>)
    /\ matched = {1}

\* C9: the script rule matches exactly the resources whose last two
\* characters are "js" and whose path does not contain "node_modules",
\* whether or not a dot stands before the "js".
C9_ScriptPatternLoose ==
    resolved =>
        (3 \in matched <=>
            /\ EndsWith(path, <<"j", "s">>)
            /\ ~Contains(path, NodeModulesName))

C9_Witness ==
    /\ resolved
    /\ 3 \in matched
    /\ EndsWith(path, <<"x", "j", "s">>)
    /\ ~EndsWith(path, <<".", "j", "s">>)

ListedExtensions ==
    {e \in {Resolve.extensions[k] : k \in 1..Len(Resolve.extensions)} :
        e # <<".", ".", ".">>}

\* C10: a resource outside node_modules whose name ends in one of the
\* extensions listed in resolve.extensions is matched by exactly one rule,
\* the script rule or the TypeScript rule.
C10_ListedExtensionsTransformed ==
    (/\ resolved
     /\ ~Contains(path, NodeModulesName)
     /\ \E e \in ListedExtensions : EndsWith(path, e))
        => (Cardinality(matched) = 1 /\ matched \subseteq {3, 4})

====
